---- MODULE Spec2Model ----
(***************************************************************************)
(* Model of the A2A agent inspector backend: the three inspector endpoints *)
(* of main.py and the service methods of services.py behind them           *)
(* (validate_url, load_agent_card, inspect_agent_card,                     *)
(* _validate_agent_card, send_message).  The protocol client, the DNS      *)
(* resolver and the remote agent are the environment: every outcome they   *)
(* can produce is a nondeterministic choice.                               *)
(***************************************************************************)
EXTENDS Integers, Sequences, FiniteSets, TLC

(***************************************************************************)
(* Bounds of the model.                                                    *)
(***************************************************************************)
MaxAddrs == 2           \* longest getaddrinfo result
MaxChunks == 3          \* longest streaming reply sequence
MaxSkills == 2          \* longest skills list of a card document
NPayloads == 2          \* distinct reply payloads

(***************************************************************************)
(* Python's None, for the Optional[str] result of validate_url.            *)
(***************************************************************************)
None == "None"

(***************************************************************************)
(* IP addresses and networks.  An address is its version and its groups    *)
(* (4 octets or 8 hextets); version 0 stands for a sockaddr string that    *)
(* ipaddress.ip_address rejects with ValueError.                           *)
(***************************************************************************)
V4(a, b, c, d) == [version |-> 4, groups |-> <<a, b, c, d>>]

V6(a, b, h) == [version |-> 6, groups |-> <<a, b, 0, 0, 0, 0, 0, h>>]

V6Mapped(a, b, c, d) ==
    [version |-> 6, groups |-> <<0, 0, 0, 0, 0, 65535, a * 256 + b, c * 256 + d>>]

Unparsable == [version |-> 0, groups |-> <<>>]

Net(ip, prefixlen) == [version |-> ip.version, groups |-> ip.groups, prefixlen |-> prefixlen]

BLOCKED_IP_RANGES ==
    << Net(V4(127, 0, 0, 0), 8),        \* Loopback
       Net(V4(10, 0, 0, 0), 8),         \* Private Class A
       Net(V4(172, 16, 0, 0), 12),      \* Private Class B
       Net(V4(192, 168, 0, 0), 16),     \* Private Class C
       Net(V4(169, 254, 0, 0), 16),     \* Link-local / Cloud metadata
       Net(V4(0, 0, 0, 0), 8),          \* Current network
       Net(V4(224, 0, 0, 0), 4),        \* Multicast
       Net(V4(240, 0, 0, 0), 4),        \* Reserved
       Net(V6(0, 0, 1), 128),           \* IPv6 loopback
       Net(V6(64512, 0, 0), 7),         \* IPv6 private   fc00::/7
       Net(V6(65152, 0, 0), 10) >>      \* IPv6 link-local fe80::/10

GroupBits(version) == IF version = 4 THEN 8 ELSE 16

Pow2(n) == 2 ^ n

(* bits of group i that the prefix covers *)
PrefixBitsIn(net, i) ==
    LET w == GroupBits(net.version)
        left == net.prefixlen - (i - 1) * w
    IN  IF left <= 0 THEN 0 ELSE IF left >= w THEN w ELSE left

(* `ip in network`: same version and equal under the netmask *)
InNetwork(ip, net) ==
    /\ ip.version = net.version
    /\ \A i \in 1..Len(net.groups) :
          LET sh == Pow2(GroupBits(net.version) - PrefixBitsIn(net, i))
          IN  (ip.groups[i] \div sh) = (net.groups[i] \div sh)

InBlockedRange(ip) ==
    \E r \in 1..Len(BLOCKED_IP_RANGES) : InNetwork(ip, BLOCKED_IP_RANGES[r])

(***************************************************************************)
(* Sample sockaddrs.  PublicAddrs lie outside every blocked range (the     *)
(* IPv4-mapped ::ffff:127.0.0.1 among them: it is an IPv6 address and no   *)
(* IPv6 range of the table holds it), InternalAddrs inside one, at the     *)
(* edges of the prefixes.                                                  *)
(***************************************************************************)
PublicAddrs ==
    { V4(93, 184, 216, 34), V4(172, 32, 0, 1), V4(223, 255, 255, 1),
      V6(8193, 3512, 1), V6(65216, 0, 1), V6Mapped(127, 0, 0, 1) }

InternalAddrs ==
    { V4(127, 0, 0, 1), V4(10, 1, 2, 3), V4(172, 31, 255, 254), V4(192, 168, 1, 1),
      V4(169, 254, 169, 254), V4(0, 0, 0, 1), V4(239, 1, 1, 1), V4(255, 255, 255, 255),
      V6(0, 0, 1), V6(64768, 0, 1), V6(65215, 0, 1) }

SockAddrs == PublicAddrs \cup InternalAddrs \cup {Unparsable}

SeqsUpTo(S, n) == UNION { [1..k -> S] : k \in 1..n }

(***************************************************************************)
(* Caller-supplied URLs, each with what urlparse makes of it: whether it   *)
(* parses (urlparse raises ValueError on "http://[::1"), its scheme and    *)
(* the host of its netloc as typed ("" when there is none).                *)
(***************************************************************************)
Url(text, parses, scheme, host) ==
    [text |-> text, parses |-> parses, scheme |-> scheme, host |-> host]

EmptyUrl == Url("", TRUE, "", "")

URLS ==
    { EmptyUrl,
      Url("http://[::1", FALSE, "", ""),
      Url("example.com", TRUE, "", ""),
      Url("ftp://example.com", TRUE, "ftp", "example.com"),
      Url("file://localhost/etc/passwd", TRUE, "file", "localhost"),
      Url("http:///card", TRUE, "http", ""),
      Url("http://localhost:8000", TRUE, "http", "localhost"),
      Url("https://LocalHost", TRUE, "https", "LocalHost"),
      Url("http://localhost.localdomain", TRUE, "http", "localhost.localdomain"),
      Url("http://169.254.169.254/", TRUE, "http", "169.254.169.254"),
      Url("https://Example.COM/agent", TRUE, "https", "Example.COM") }

(* str.lower() on the hosts above *)
Lower(host) ==
    CASE host = "LocalHost" -> "localhost"
      [] host = "Example.COM" -> "example.com"
      [] OTHER -> host

(* `not url` *)
IsFalsyUrl(url) == url.text = ""

(* parsed.hostname.lower() *)
HostnameOf(url) == Lower(url.host)

R_REQUIRED == "URL is required"
R_FORMAT == "Invalid URL format"
R_SCHEME == "URL must use http or https scheme"
R_HOSTNAME == "URL must include a hostname"
R_LOCALHOST == "Access to localhost is not allowed"
R_PRIVATE == "Access to private/internal IP addresses is not allowed"
R_ERROR == "Error validating URL"
R_UNRESOLVED(hostname) == "Unable to resolve hostname: " \o hostname

(***************************************************************************)
(* validate_url up to the call of socket.getaddrinfo: the reason it        *)
(* returns without resolving, or None when it goes on to resolve.          *)
(***************************************************************************)
PreResolveSkipsLocalhost(url) ==
    IF IsFalsyUrl(url) THEN R_REQUIRED
    ELSE IF ~url.parses THEN R_FORMAT
    ELSE IF url.scheme \notin {"http", "https"} THEN R_SCHEME
    ELSE IF url.host = "" THEN R_HOSTNAME
    ELSE None

PreResolve(url) ==
    IF IsFalsyUrl(url) THEN R_REQUIRED
    ELSE IF ~url.parses THEN R_FORMAT
    ELSE IF url.scheme \notin {"http", "https"} THEN R_SCHEME
    ELSE IF url.host = "" THEN R_HOSTNAME
    ELSE IF HostnameOf(url) \in {"localhost", "localhost.localdomain"} THEN R_LOCALHOST
    ELSE None

(***************************************************************************)
(* The loop of validate_url over addr_info, from entry i on: an entry that *)
(* ip_address rejects is skipped, the first entry inside a blocked range   *)
(* ends the loop with the reason.                                          *)
(***************************************************************************)
RECURSIVE CheckFrom(_, _)
CheckFrom(addr_info, i) ==
    IF i > Len(addr_info) THEN None
    ELSE IF addr_info[i].version = 0 THEN CheckFrom(addr_info, i + 1)
    ELSE IF InBlockedRange(addr_info[i]) THEN R_PRIVATE
    ELSE CheckFrom(addr_info, i + 1)

CheckFirstOnly(addr_info) ==
    IF Len(addr_info) > 0 /\ addr_info[1].version # 0 /\ InBlockedRange(addr_info[1])
    THEN R_PRIVATE ELSE None

CheckAddrInfo(addr_info) == CheckFrom(addr_info, 1)

(***************************************************************************)
(* What socket.getaddrinfo can do for a hostname: return one or more       *)
(* sockaddrs, raise socket.gaierror, or raise something else.  An IP       *)
(* literal resolves to itself.                                             *)
(***************************************************************************)
AddrInfosOf(hostname) ==
    IF hostname = "169.254.169.254" THEN { <<V4(169, 254, 169, 254)>> }
    ELSE SeqsUpTo(SockAddrs, MaxAddrs)

DnsOutcomes(hostname) ==
    { [tag |-> "addrs", addrs |-> a] : a \in AddrInfosOf(hostname) }
      \cup { [tag |-> "gaierror", addrs |-> <<>>], [tag |-> "exception", addrs |-> <<>>] }

(* validate_url from the return (or raise) of getaddrinfo to its own return *)
AfterResolve(hostname, outcome) ==
    CASE outcome.tag = "addrs" -> CheckAddrInfo(outcome.addrs)
      [] outcome.tag = "gaierror" -> R_UNRESOLVED(hostname)
      [] OTHER -> R_ERROR

(***************************************************************************)
(* Python values of a card document, as far as the code looks at them: the *)
(* kind, the length of a str or list, and for a dict the values under      *)
(* 'streaming' and 'pushNotifications' ("absent": no such key).  Kind      *)
(* "absent" is a key (or attribute) the card does not have at all.         *)
(***************************************************************************)
Value(kind, len, streaming, push) ==
    [kind |-> kind, len |-> len, streaming |-> streaming, push |-> push]

Absent == Value("absent", 0, "absent", "absent")

PyNone == Value("None", 0, "absent", "absent")

Str(n) == Value("str", n, "absent", "absent")

List(n) == Value("list", n, "absent", "absent")

Dict(streaming, push) == Value("dict", 0, streaming, push)

(* len() of a dict value *)
DictLen(v) ==
    (IF v.streaming = "absent" THEN 0 ELSE 1) + (IF v.push = "absent" THEN 0 ELSE 1)

(* Python truthiness *)
Truthy(v) ==
    CASE v.kind \in {"str", "list"} -> v.len > 0
      [] v.kind = "dict" -> DictLen(v) > 0
      [] OTHER -> FALSE

(* `key in card_data` *)
HasKey(card_data, key) == card_data[key].kind # "absent"

FlagValues == {"absent", "None", "false", "true"}

CapabilityValues ==
    {Absent, PyNone, Str(1)}
      \cup { Dict(s, p) : s \in FlagValues, p \in {"absent", "false", "true"} }

SkillsValues == {Absent, PyNone, Str(1)} \cup { List(n) : n \in 0..MaxSkills }

Card(name, version, capabilities, url, skills) ==
    [name |-> name, version |-> version, capabilities |-> capabilities,
     url |-> url, skills |-> skills]

(* the cards a remote agent can publish *)
Cards ==
    { Card(n, v, c, u, s) :
        n \in {Absent, Str(0), Str(1)}, v \in {PyNone, Str(3)},
        c \in CapabilityValues, u \in {Str(0), Str(8)}, s \in SkillsValues }

(* send_message reads nothing of the card but its capabilities *)
SendCards == { Card(Str(1), Str(3), c, Str(8), List(0)) : c \in CapabilityValues }

NoCard == Card(Absent, Absent, Absent, Absent, Absent)

(* card.model_dump(exclude_none=...): every attribute the card has *)
model_dump(c, exclude_none) ==
    [f \in DOMAIN c |-> IF exclude_none /\ c[f].kind = "None" THEN Absent ELSE c[f]]

(***************************************************************************)
(* _validate_agent_card.  The marks of the report lines are written        *)
(* "pass: " (check mark), "fail: " (cross) and "warn: " (warning sign).    *)
(***************************************************************************)
required_fields == <<"name", "version", "capabilities", "url">>

L_COMPLETED == "pass: Agent card validation completed"
L_CAP_VALID == "pass: Capabilities structure is valid"
L_CAP_OBJECT == "fail: Capabilities must be an object"
L_STREAMING == "pass: Streaming capability supported"
L_NO_STREAMING == "warn: Streaming capability not supported"
L_PUSH == "pass: Push notifications supported"
L_NO_PUSH == "warn: Push notifications not supported"
L_NO_SKILLS == "warn: No skills defined"
L_SKILLS_ARRAY == "fail: Skills must be an array"
L_SKILLS(n) == "pass: Agent has " \o ToString(n) \o " skills defined"
L_MISSING(field) == "fail: Missing required field: " \o field
L_PRESENT(field) == "pass: Required field '" \o field \o "' is present"

RequiredLineKeyOnly(card_data, field) ==
    IF ~HasKey(card_data, field) THEN L_MISSING(field) ELSE L_PRESENT(field)

RequiredLine(card_data, field) ==
    IF ~HasKey(card_data, field) \/ ~Truthy(card_data[field])
    THEN L_MISSING(field) ELSE L_PRESENT(field)

RequiredLines(card_data) ==
    [i \in 1..Len(required_fields) |-> RequiredLine(card_data, required_fields[i])]

CapabilityLinesUnguarded(card_data) ==
    LET capabilities == card_data["capabilities"]
    IN  IF capabilities.kind = "dict"
        THEN << L_CAP_VALID,
                IF capabilities.streaming = "true" THEN L_STREAMING ELSE L_NO_STREAMING,
                IF capabilities.push = "true" THEN L_PUSH ELSE L_NO_PUSH >>
        ELSE << L_CAP_OBJECT >>

CapabilityLines(card_data) ==
    LET capabilities == card_data["capabilities"]
    IN  IF ~HasKey(card_data, "capabilities") THEN << >>
        ELSE IF capabilities.kind = "dict"
        THEN << L_CAP_VALID,
                IF capabilities.streaming = "true" THEN L_STREAMING ELSE L_NO_STREAMING,
                IF capabilities.push = "true" THEN L_PUSH ELSE L_NO_PUSH >>
        ELSE << L_CAP_OBJECT >>

SkillsLines(card_data) ==
    LET skills == card_data["skills"]
    IN  IF ~HasKey(card_data, "skills") THEN << >>
        ELSE IF skills.kind = "list"
        THEN IF skills.len > 0 THEN << L_SKILLS(skills.len) >> ELSE << L_NO_SKILLS >>
        ELSE << L_SKILLS_ARRAY >>

validation_results(card_data) ==
    RequiredLines(card_data) \o CapabilityLines(card_data) \o SkillsLines(card_data)
      \o << L_COMPLETED >>

_validate_agent_card(card_data) ==
    [success |-> TRUE, data |-> card_data, validation |-> validation_results(card_data),
     message |-> "Agent card validated successfully"]

(***************************************************************************)
(* Replies of the agent.  A unary reply and a streaming chunk are either a *)
(* result or a protocol-level error object; a chunk may report a terminal  *)
(* task state (final).  kind "None" is Python's None.                      *)
(***************************************************************************)
Reply(kind, payload, final) == [kind |-> kind, payload |-> payload, final |-> final]

NoReply == Reply("None", 0, FALSE)

Payloads == 1..NPayloads

UnaryReplies == { Reply(k, p, TRUE) : k \in {"result", "error"}, p \in Payloads }

Chunks == { Reply(k, p, f) : k \in {"result", "error"}, p \in Payloads, f \in BOOLEAN }

(* response.model_dump(mode='json', exclude_none=True): a non-empty dict *)
reply_dump(r) == Reply(r.kind, r.payload, r.final)

(* str(e) of the exceptions the protocol client raises *)
Faults == {"connection refused", "timed out", "malformed document"}

(***************************************************************************)
(* Response envelopes of the service, and an exception leaving a method.   *)
(***************************************************************************)
Success(data, message) == [success |-> TRUE, data |-> data, message |-> message]

Failure(error) == [success |-> FALSE, error |-> error]

Raised(e) == [raised |-> e]

NoResult == [pending |-> TRUE]

IsEnvelope(r) == "success" \in DOMAIN r

IsRaised(r) == "raised" \in DOMAIN r

(* load_agent_card: `except Exception as e` *)
load_on_exception(e) == Failure(e)

(* send_message: `except Exception as e`, for an exception raised at step *)
send_on_exception_chunk_escapes(step, e) ==
    IF step = "chunk" THEN Raised(e) ELSE Failure(e)

send_on_exception(step, e) == Failure(e)

(* load_agent_card on the card the resolver returned *)
load_result(c) == Success(model_dump(c, FALSE), "Agent card loaded successfully")

(* inspect_agent_card on the envelope of load_agent_card *)
inspect_result(loaded) ==
    IF loaded.success THEN _validate_agent_card(loaded.data) ELSE loaded

(* send_message: supports_streaming of the resolved card *)
supports_streaming_any_capabilities(c) ==
    c.capabilities.kind \notin {"absent", "None"}

supports_streaming(c) ==
    /\ c.capabilities.kind # "absent"
    /\ c.capabilities.kind # "None"
    /\ c.capabilities.streaming = "true"

(* the body of `async for chunk in stream_response` *)
keep_first_chunk(response_data, chunk) ==
    IF response_data.kind = "None" THEN reply_dump(chunk) ELSE response_data

consume_chunk(response_data, chunk) == reply_dump(chunk)

(* send_message after the streaming sequence has ended *)
stream_result_always_success(response_data) ==
    Success(response_data, "Message sent successfully (streaming)")

stream_result(response_data) ==
    IF response_data.kind # "None"
    THEN Success(response_data, "Message sent successfully (streaming)")
    ELSE Failure("No response received from streaming")

(* send_message after the unary reply *)
unary_result(response) == Success(reply_dump(response), "Message sent successfully")

(***************************************************************************)
(* The endpoints of main.py.                                               *)
(***************************************************************************)
Endpoints == {"load", "inspect", "send"}

Http(status, detail) == [status |-> status, detail |-> detail]

NoHttp == Http(0, "")

(* `if validation_error:` of the three endpoints *)
url_rejected_except_inspect(ep, validation_error) ==
    ep # "inspect" /\ validation_error # None

url_rejected(ep, validation_error) == validation_error # None

(* the endpoint's answer to what the service call returned or raised *)
respond(res) ==
    IF IsRaised(res) THEN Http(500, res.raised)
    ELSE IF res.success THEN Http(200, "")
    ELSE Http(502, res.error)

RequestBodies ==
    [json_ok : BOOLEAN, url : URLS, message : {"", "hello"}]

(***************************************************************************)
(* State of one request (the service keeps none between requests).         *)
(***************************************************************************)
VARIABLES
    caller,             \* the endpoint handling the request, or the service method called directly
    pc,                 \* where the request is
    agent_url,          \* the caller-supplied URL
    dns_calls,          \* calls of socket.getaddrinfo so far
    addr_info,          \* validate_url: what getaddrinfo returned
    validation_error,   \* what validate_url returned ("unset" before it has)
    card,               \* the card the resolver returned
    calls,              \* network calls to the agent so far, by operation
    stream,             \* streaming branch: chunks consumed, index of the first final one,
                        \* the chunk before the last one
    last_reply,         \* the last reply or chunk the agent sent
    fault_at,           \* the step at which the protocol client raised ("none" if it has not)
    response_data,      \* send_message: response_data
    result,             \* what the service method returned or raised
    http                \* the endpoint's answer

vars ==
    << caller, pc, agent_url, dns_calls, addr_info, validation_error, card, calls,
       stream, last_reply, fault_at, response_data, result, http >>

Init ==
    /\ caller = "none"
    /\ pc = "idle"
    /\ agent_url = EmptyUrl
    /\ dns_calls = 0
    /\ addr_info = << >>
    /\ validation_error = "unset"
    /\ card = NoCard
    /\ calls = [resolve |-> 0, unary |-> 0, streaming |-> 0]
    /\ stream = [n |-> 0, first_final |-> 0, previous |-> NoReply]
    /\ last_reply = NoReply
    /\ fault_at = "none"
    /\ response_data = NoReply
    /\ result = NoResult
    /\ http = NoHttp

(* the service method returns (or raises) and its caller answers *)
Finish(res) ==
    /\ result' = res
    /\ http' = IF caller \in Endpoints THEN respond(res) ELSE http
    /\ pc' = "done"

(* validate_url is entered with url: it returns at once or calls getaddrinfo *)
EnterValidateUrl(url) ==
    /\ agent_url' = url
    /\ IF PreResolve(url) # None
       THEN /\ validation_error' = PreResolve(url)
            /\ pc' = "validated"
            /\ dns_calls' = dns_calls
       ELSE /\ validation_error' = validation_error
            /\ pc' = "getaddrinfo"
            /\ dns_calls' = dns_calls + 1

(* an endpoint up to its call of validate_url *)
Endpoint(ep, body) ==
    /\ pc = "idle"
    /\ caller' = ep
    /\ UNCHANGED << addr_info, card, calls, stream, last_reply, fault_at, response_data, result >>
    /\ IF ~body.json_ok
       THEN /\ http' = Http(500, "invalid JSON body")
            /\ pc' = "done"
            /\ UNCHANGED << agent_url, dns_calls, validation_error >>
       ELSE IF IsFalsyUrl(body.url) \/ (ep = "send" /\ body.message = "")
       THEN /\ http' = Http(400, IF ep = "send" THEN "url and message are required"
                                 ELSE "url is required")
            /\ pc' = "done"
            /\ UNCHANGED << agent_url, dns_calls, validation_error >>
       ELSE /\ http' = http
            /\ EnterValidateUrl(body.url)

load_agent == \E body \in RequestBodies : Endpoint("load", body)

inspect_agent == \E body \in RequestBodies : Endpoint("inspect", body)

send_message_endpoint == \E body \in RequestBodies : Endpoint("send", body)

(* inspector_service.validate_url(url) called on its own *)
validate_url ==
    /\ pc = "idle"
    /\ caller' = "validate_url"
    /\ \E url \in URLS : EnterValidateUrl(url)
    /\ UNCHANGED << addr_info, card, calls, stream, last_reply, fault_at, response_data,
                    result, http >>

(* getaddrinfo returns or raises, and validate_url runs to its return *)
getaddrinfo ==
    /\ pc = "getaddrinfo"
    /\ \E outcome \in DnsOutcomes(HostnameOf(agent_url)) :
          /\ addr_info' = outcome.addrs
          /\ validation_error' = AfterResolve(HostnameOf(agent_url), outcome)
    /\ pc' = "validated"
    /\ UNCHANGED << caller, agent_url, dns_calls, card, calls, stream, last_reply, fault_at,
                    response_data, result, http >>

(* load_agent_card and send_message up to `await resolver.get_agent_card()` *)
EnterService(method, url) ==
    IF method # "send" /\ IsFalsyUrl(url)
    THEN /\ Finish(Failure("Agent URL is required"))
         /\ calls' = calls
    ELSE /\ calls' = [calls EXCEPT !.resolve = @ + 1]
         /\ pc' = "get_agent_card"
         /\ UNCHANGED << result, http >>

(* the endpoint after validate_url: reject, or call the service method *)
after_validate_url ==
    /\ pc = "validated"
    /\ caller \in Endpoints
    /\ addr_info' = << >>
    /\ IF url_rejected(caller, validation_error)
       THEN /\ http' = Http(400, validation_error)
            /\ pc' = "done"
            /\ UNCHANGED << calls, result >>
       ELSE EnterService(caller, agent_url)
    /\ UNCHANGED << caller, agent_url, dns_calls, validation_error, card, stream,
                    last_reply, fault_at, response_data >>

(* inspector_service.load_agent_card(url) called on its own *)
load_agent_card ==
    /\ pc = "idle"
    /\ caller' = "load_agent_card"
    /\ \E url \in URLS :
          /\ agent_url' = url
          /\ EnterService("load", url)
    /\ UNCHANGED << dns_calls, addr_info, validation_error, card, stream, last_reply,
                    fault_at, response_data >>

(* the service method behind a caller *)
MethodOf(c) == IF c = "load_agent_card" THEN "load" ELSE c

(* what `await resolver.get_agent_card()` can do: return a card or raise *)
CardOutcomes(method) ==
    { [tag |-> "card", card |-> c, err |-> ""] :
        c \in IF method = "send" THEN SendCards ELSE Cards }
      \cup { [tag |-> "fault", card |-> NoCard, err |-> e] : e \in Faults }

(***************************************************************************)
(* The resolver answers.  load_agent_card and inspect_agent_card run to    *)
(* their return; send_message negotiates the branch and issues the unary   *)
(* or the streaming request.                                               *)
(***************************************************************************)
get_agent_card ==
    /\ pc = "get_agent_card"
    /\ \E outcome \in CardOutcomes(MethodOf(caller)) :
          /\ card' = outcome.card
          /\ fault_at' = IF outcome.tag = "fault" THEN "resolve" ELSE fault_at
          /\ CASE MethodOf(caller) = "load" ->
                    /\ Finish(IF outcome.tag = "fault" THEN load_on_exception(outcome.err)
                              ELSE load_result(outcome.card))
                    /\ calls' = calls
               [] MethodOf(caller) = "inspect" ->
                    /\ Finish(inspect_result(
                              IF outcome.tag = "fault" THEN load_on_exception(outcome.err)
                              ELSE load_result(outcome.card)))
                    /\ calls' = calls
               [] OTHER ->
                    IF outcome.tag = "fault"
                    THEN /\ Finish(send_on_exception("resolve", outcome.err))
                         /\ calls' = calls
                    ELSE IF supports_streaming(outcome.card)
                    THEN /\ calls' = [calls EXCEPT !.streaming = @ + 1]
                         /\ pc' = "stream"
                         /\ UNCHANGED << result, http >>
                    ELSE /\ calls' = [calls EXCEPT !.unary = @ + 1]
                         /\ pc' = "unary"
                         /\ UNCHANGED << result, http >>
    /\ UNCHANGED << caller, agent_url, dns_calls, addr_info, validation_error, stream,
                    last_reply, response_data >>

(* `await client.send_message(request)` returns a reply or raises *)
unary_reply ==
    /\ pc = "unary"
    /\ \E outcome \in { [tag |-> "reply", reply |-> r, err |-> ""] : r \in UnaryReplies }
                        \cup { [tag |-> "fault", reply |-> NoReply, err |-> e] : e \in Faults } :
          IF outcome.tag = "fault"
          THEN /\ fault_at' = "unary"
               /\ Finish(send_on_exception("unary", outcome.err))
               /\ UNCHANGED << last_reply, response_data >>
          ELSE /\ last_reply' = outcome.reply
               /\ response_data' = reply_dump(outcome.reply)
               /\ Finish(unary_result(outcome.reply))
               /\ fault_at' = fault_at
    /\ UNCHANGED << caller, agent_url, dns_calls, addr_info, validation_error, card, calls,
                    stream >>

(* the streaming sequence yields its next chunk *)
stream_chunk ==
    /\ pc = "stream"
    /\ stream.n < MaxChunks
    /\ \E chunk \in Chunks :
          /\ last_reply' = chunk
          /\ response_data' = consume_chunk(response_data, chunk)
          /\ stream' = [n |-> stream.n + 1,
                        first_final |-> IF stream.first_final = 0 /\ chunk.final
                                        THEN stream.n + 1 ELSE stream.first_final,
                        previous |-> last_reply]
    /\ UNCHANGED << caller, pc, agent_url, dns_calls, addr_info, validation_error, card,
                    calls, fault_at, result, http >>

(* the streaming sequence raises while the next chunk is awaited *)
stream_fault ==
    /\ pc = "stream"
    /\ \E e \in Faults : Finish(send_on_exception("chunk", e))
    /\ fault_at' = "chunk"
    /\ UNCHANGED << caller, agent_url, dns_calls, addr_info, validation_error, card, calls,
                    stream, last_reply, response_data >>

(* the streaming sequence ends *)
stream_end ==
    /\ pc = "stream"
    /\ Finish(stream_result(response_data))
    /\ UNCHANGED << caller, agent_url, dns_calls, addr_info, validation_error, card, calls,
                    stream, last_reply, fault_at, response_data >>

Next ==
    \/ load_agent
    \/ inspect_agent
    \/ send_message_endpoint
    \/ validate_url
    \/ load_agent_card
    \/ getaddrinfo
    \/ after_validate_url
    \/ get_agent_card
    \/ unary_reply
    \/ stream_chunk
    \/ stream_fault
    \/ stream_end

Spec == Init /\ [][Next]_vars

(***************************************************************************)
(* Properties.                                                             *)
(***************************************************************************)
NetworkCalls == calls.resolve + calls.unary + calls.streaming

(* C1: in a request handled by the load, inspect or send-message endpoint  *)
(* no network call to the agent URL (card resolution, message dispatch) is *)
(* made unless validate_url has returned None for it; when validate_url    *)
(* returns a reason the request ends with a 400 rejection and the service  *)
(* method is never invoked.                                                *)
C1_AdmissionBeforeNetwork ==
    caller \in Endpoints =>
        /\ (NetworkCalls > 0 \/ pc \in {"get_agent_card", "unary", "stream"} \/ result # NoResult)
              => validation_error = None
        /\ validation_error \notin {"unset", None} =>
              /\ NetworkCalls = 0
              /\ result = NoResult
              /\ pc \in {"validated", "done"}
              /\ pc = "done" => http = Http(400, validation_error)

C1_Witness ==
    /\ caller = "inspect"
    /\ pc = "done"
    /\ dns_calls = 1
    /\ validation_error = R_PRIVATE
    /\ http.status = 400
    /\ NetworkCalls = 0

(* C2: validate_url tests every address getaddrinfo returned, of either    *)
(* family, against the blocked ranges: it returns the private-address      *)
(* reason exactly when at least one returned address lies in a blocked     *)
(* range, whatever its position, and None only when none does.             *)
C2_EveryAddressChecked ==
    (pc = "validated" /\ addr_info # << >>) =>
        /\ (\E i \in 1..Len(addr_info) : InBlockedRange(addr_info[i]))
              => validation_error = R_PRIVATE
        /\ validation_error = None
              => \A i \in 1..Len(addr_info) : ~InBlockedRange(addr_info[i])
        /\ validation_error \in {None, R_PRIVATE}

C2_Witness ==
    /\ pc = "validated"
    /\ Len(addr_info) = 2
    /\ addr_info[1].version = 4
    /\ ~InBlockedRange(addr_info[1])
    /\ addr_info[2].version = 6
    /\ InBlockedRange(addr_info[2])
    /\ validation_error = R_PRIVATE

(* C3: when the agent answers with a protocol-level error reply (no        *)
(* transport fault), send_message returns success=false, on the unary and  *)
(* on the streaming branch.                                                *)
C3_ErrorReplyIsFailure ==
    (caller = "send" /\ pc = "done" /\ fault_at = "none" /\ last_reply.kind = "error")
        => (IsEnvelope(result) /\ ~result.success)

(* C4: send_message issues the streaming call only when the resolved card  *)
(* has capabilities whose streaming is truthy; when streaming is false or  *)
(* None, or capabilities is absent, None or without a streaming attribute, *)
(* it issues exactly the unary call and never the streaming one.           *)
StreamingAdvertised(c) == c.capabilities.kind = "dict" /\ c.capabilities.streaming = "true"

C4_BranchFollowsCapability ==
    (caller = "send" /\ card # NoCard) =>
        IF StreamingAdvertised(card)
        THEN calls.streaming = 1 /\ calls.unary = 0 /\ pc \in {"stream", "done"}
        ELSE calls.streaming = 0 /\ calls.unary = 1 /\ pc \in {"unary", "done"}

C4_Witness ==
    /\ caller = "send"
    /\ pc = "done"
    /\ card.capabilities.kind = "dict"
    /\ card.capabilities.streaming = "false"
    /\ calls.unary = 1
    /\ calls.streaming = 0
    /\ result.success

(* C5: whatever the protocol client raises and at whichever step (card     *)
(* resolution, the unary reply, any streaming chunk), load_agent_card and  *)
(* send_message return an envelope with success=false and the error        *)
(* string; the exception does not leave the service method.                *)
C5_FaultsBecomeEnvelopes ==
    fault_at # "none" =>
        /\ pc = "done"
        /\ ~IsRaised(result)
        /\ IsEnvelope(result)
        /\ ~result.success
        /\ DOMAIN result = {"success", "error"}
        /\ result.error \in Faults
        /\ caller \in Endpoints => http = Http(502, result.error)

C5_Witness ==
    /\ caller = "send"
    /\ fault_at = "chunk"
    /\ stream.n = 2
    /\ pc = "done"
    /\ result = Failure("timed out")

(* C6: validate_url applies its checks in the order empty, well-formed,    *)
(* scheme, hostname, localhost alias and stops at the first that fails: a  *)
(* URL failing one of them gets that check's reason and getaddrinfo is     *)
(* never called.                                                           *)
C6_FirstFailure(url) ==
    IF url.text = "" THEN R_REQUIRED
    ELSE IF ~url.parses THEN R_FORMAT
    ELSE IF url.scheme # "http" /\ url.scheme # "https" THEN R_SCHEME
    ELSE IF url.host = "" THEN R_HOSTNAME
    ELSE IF url.host \in {"localhost", "LocalHost", "localhost.localdomain"} THEN R_LOCALHOST
    ELSE None

C6_NoDnsForBadUrl ==
    (pc = "validated" /\ C6_FirstFailure(agent_url) # None) =>
        /\ validation_error = C6_FirstFailure(agent_url)
        /\ dns_calls = 0
        /\ addr_info = << >>

C6_Witness ==
    /\ caller = "validate_url"
    /\ pc = "validated"
    /\ agent_url.host = "LocalHost"
    /\ validation_error = R_LOCALHOST
    /\ dns_calls = 0

StreamEnded == caller = "send" /\ pc = "done" /\ calls.streaming = 1 /\ fault_at = "none"

(* C7, as claimed: when the streaming sequence ends and no chunk reported a *)
(* terminal state, send_message returns success=false with a non-empty     *)
(* error.  (Stated for a sequence whose last chunk is a result, so that a  *)
(* violation does not rest on how error replies are treated, see C3.)      *)
C7_NoTerminalMeansFailure ==
    (StreamEnded /\ stream.first_final = 0 /\ last_reply.kind # "error") =>
        (IsEnvelope(result) /\ ~result.success /\ result.error # "")

(* C7, amended: when the streaming sequence ends having yielded zero       *)
(* chunks, send_message returns success=false with a present, non-empty    *)
(* error string, never success=true.                                       *)
C7_ZeroChunksMeansFailure ==
    (StreamEnded /\ stream.n = 0) =>
        /\ IsEnvelope(result)
        /\ ~result.success
        /\ "error" \in DOMAIN result
        /\ result.error # ""
        /\ http = Http(502, result.error)

C7_Witness ==
    /\ StreamEnded
    /\ stream.n = 0
    /\ result = Failure("No response received from streaming")

(* the card document {name:"x", version:"1.0", capabilities:{}, url:"http://x", skills:[]} *)
C8_Card == Card(Str(1), Str(3), Dict("absent", "absent"), Str(8), List(0))

C8_Validated == caller = "inspect" /\ pc = "done" /\ card = C8_Card /\ IsEnvelope(result)

(* C8, as claimed: the report of that card is, in order, four pass lines   *)
(* for name, version, capabilities and url, the pass line of the           *)
(* capabilities structure, the two warn lines for streaming and push       *)
(* notifications, the warn line for empty skills, the completion marker.   *)
C8_FourPassLines ==
    C8_Validated =>
        result.validation =
            << L_PRESENT("name"), L_PRESENT("version"), L_PRESENT("capabilities"),
               L_PRESENT("url"), L_CAP_VALID, L_NO_STREAMING, L_NO_PUSH, L_NO_SKILLS,
               L_COMPLETED >>

(* C8, amended: the report of that card is, in order, pass lines for name  *)
(* and version, a fail line naming capabilities as missing (the empty      *)
(* object is falsy), a pass line for url, then the pass line of the        *)
(* capabilities structure, the two warn lines, the warn line for empty     *)
(* skills and the completion marker.                                       *)
C8_EmptyCapabilitiesFail ==
    C8_Validated =>
        result.validation =
            << "pass: Required field 'name' is present",
               "pass: Required field 'version' is present",
               "fail: Missing required field: capabilities",
               "pass: Required field 'url' is present",
               "pass: Capabilities structure is valid",
               "warn: Streaming capability not supported",
               "warn: Push notifications not supported",
               "warn: No skills defined",
               "pass: Agent card validation completed" >>

C8_Witness ==
    /\ C8_Validated
    /\ result.success
    /\ Len(result.validation) = 9
    /\ http.status = 200

(* C9: for every card the resolver returned, however malformed,            *)
(* inspect_agent_card returns success=true with a report that ends with    *)
(* the completion marker and raises nothing; for a card with no            *)
(* capabilities key the report has the fail line naming capabilities and   *)
(* none of the capabilities sub-check lines.                               *)
C9_CapabilityLinesOf(report) ==
    { i \in 1..Len(report) :
        report[i] \in {L_CAP_VALID, L_CAP_OBJECT, L_STREAMING, L_NO_STREAMING, L_PUSH,
                       L_NO_PUSH} }

C9_MalformedCardStillInspected ==
    (caller = "inspect" /\ pc = "done" /\ card # NoCard) =>
        /\ IsEnvelope(result)
        /\ result.success
        /\ result.data = card
        /\ Len(result.validation) >= 5
        /\ result.validation[Len(result.validation)] = L_COMPLETED
        /\ http.status = 200
        /\ card.capabilities.kind = "absent" =>
              /\ result.validation[3] = "fail: Missing required field: capabilities"
              /\ C9_CapabilityLinesOf(result.validation) = {}

C9_Witness ==
    /\ caller = "inspect"
    /\ pc = "done"
    /\ card.capabilities.kind = "absent"
    /\ card.skills.kind = "str"
    /\ card.name.kind = "absent"
    /\ result.success
    /\ Len(result.validation) = 6

StreamSucceeded == StreamEnded /\ IsEnvelope(result) /\ result.success

(* C10, as claimed: no chunk is consumed after one that reports a terminal *)
(* task state, and the data returned is that last/terminal chunk.          *)
C10_StopsAtTerminalChunk ==
    (caller = "send" /\ stream.first_final # 0) =>
        /\ stream.n = stream.first_final
        /\ StreamSucceeded => result.data.final

(* C10, amended: on the streaming branch send_message issues one streaming *)
(* request and consumes every chunk until the sequence ends, also past a   *)
(* chunk that reports a terminal task state; the data of the success       *)
(* envelope is the payload of the last chunk consumed only, every earlier  *)
(* payload is discarded.                                                   *)
C10_LastChunkOnly ==
    /\ (caller = "send" /\ pc = "stream") =>
          /\ result = NoResult
          /\ calls.streaming = 1
          /\ response_data = IF stream.n = 0 THEN NoReply ELSE last_reply
    /\ StreamSucceeded =>
          /\ calls.streaming = 1
          /\ stream.n >= 1
          /\ result.data = last_reply
          /\ result.data.payload = last_reply.payload

C10_Witness ==
    /\ StreamSucceeded
    /\ stream.n = 3
    /\ stream.first_final = 1
    /\ stream.previous.payload # last_reply.payload
    /\ ~last_reply.final
    /\ result.data.payload = last_reply.payload

====
